---- MODULE Spec2Model ----
(***************************************************************************)
(* Model of simple-mcp: the command-line client (mcp_client.py) driving    *)
(* one session with the tool server (mcp_server.py).                       *)
(*                                                                         *)
(* Text the user types and text the tools work on is a sequence of         *)
(* one-character strings, so strip / lower / startswith / split and the    *)
(* quote parser are computed as the Python code computes them.  Fixed      *)
(* words of the program (mode names, tool names, exception names) are      *)
(* plain strings.  sys.argv is 1-based here: sys_argv[1] is the program    *)
(* name (Python's sys.argv[0]) and sys_argv[2] is the mode.                *)
(*                                                                         *)
(* The mcp package (ClientSession, stdio_client, FastMCP) is not part of   *)
(* the repository: each call into it is modelled at its call site by the   *)
(* outcomes the calling code distinguishes (returns, raises an Exception,  *)
(* is interrupted by KeyboardInterrupt).                                   *)
(***************************************************************************)
EXTENDS Integers, Sequences, FiniteSets, TLC

VARIABLES
  sys_argv,        \* the command line
  pc,              \* position of main / run_with_server
  server_command,  \* main's server_command
  operation,       \* run_with_server's operation argument ("" before the call)
  transport,       \* the stdio transport: "none", "open", "closed"
  opens, closes,   \* times the transport was opened / closed
  sess,            \* the session: Unconnected, Handshaking, Ready, Closed
  serverUp,        \* the server process is running
  initCount,       \* calls of session.initialize()
  handshook,       \* session.initialize() has returned
  ops,             \* tool operations issued on the session so far
  tools,           \* SimpleMCPClient.tools
  demo_i,          \* run_demo: index of the next scripted call
  command,         \* interactive_session: the command of the last iteration
  event,           \* interactive_session: how the last iteration ended
  lastCall,        \* the last call_tool: what the library did, what the caller got
  lastList,        \* the last list_tools: what the library did, what the caller got
  out,             \* the last thing printed
  exc,             \* the exception propagating out of run_with_server ("none")
  logged,          \* the last logger.error record ("none")
  fs               \* the server's files: path -> content, only for existing files

vars == <<sys_argv, pc, server_command, operation, transport, opens, closes, sess,
          serverUp, initCount, handshook, ops, tools, demo_i, command, event,
          lastCall, lastList, out, exc, logged, fs>>

----------------------------------------------------------------------------
(* Text helpers: Python's str methods on sequences of characters.          *)

UpperToLower ==
  [c \in {"Q", "U", "I", "T", "E", "X", "H", "L", "P", "O", "S"} |->
     CASE c = "Q" -> "q" [] c = "U" -> "u" [] c = "I" -> "i" [] c = "T" -> "t"
       [] c = "E" -> "e" [] c = "X" -> "x" [] c = "H" -> "h" [] c = "L" -> "l"
       [] c = "P" -> "p" [] c = "O" -> "o" [] c = "S" -> "s"]

\* str.lower()
Lower(s) == [i \in 1..Len(s) |-> IF s[i] \in DOMAIN UpperToLower THEN UpperToLower[s[i]] ELSE s[i]]

RECURSIVE LStrip(_)
LStrip(s) == IF s # <<>> /\ Head(s) = " " THEN LStrip(Tail(s)) ELSE s

RECURSIVE RStrip(_)
RStrip(s) == IF s # <<>> /\ s[Len(s)] = " " THEN RStrip(SubSeq(s, 1, Len(s) - 1)) ELSE s

\* str.strip()
Strip(s) == RStrip(LStrip(s))

\* str.startswith(p)
StartsWith(s, p) == Len(s) >= Len(p) /\ SubSeq(s, 1, Len(p)) = p

\* s[n:]
From(s, n) == SubSeq(s, n + 1, Len(s))

\* str.split(): the whitespace-separated words
RECURSIVE SplitFrom(_, _, _)
SplitFrom(s, cur, acc) ==
  IF s = <<>> THEN (IF cur # <<>> THEN Append(acc, cur) ELSE acc)
  ELSE IF Head(s) = " "
       THEN SplitFrom(Tail(s), <<>>, IF cur # <<>> THEN Append(acc, cur) ELSE acc)
       ELSE SplitFrom(Tail(s), Append(cur, Head(s)), acc)

Split(s) == SplitFrom(s, <<>>, <<>>)

\* ' '.join(words)
RECURSIVE Join(_)
Join(words) ==
  IF words = <<>> THEN <<>>
  ELSE IF Len(words) = 1 THEN words[1]
  ELSE words[1] \o <<" ">> \o Join(Tail(words))

\* parse_command_args: the loop body, on the characters left to read
RECURSIVE ParseFrom(_, _, _, _, _)
ParseFrom(s, args, current_arg, in_quotes, quote_char) ==
  IF s = <<>> THEN (IF current_arg # <<>> THEN Append(args, current_arg) ELSE args)
  ELSE LET char == Head(s) IN
    IF ~in_quotes
    THEN IF char \in {"\"", "'"}
         THEN ParseFrom(Tail(s), args, current_arg, TRUE, char)
         ELSE IF char = " "
              THEN IF current_arg # <<>>
                   THEN ParseFrom(Tail(s), Append(args, current_arg), <<>>, FALSE, quote_char)
                   ELSE ParseFrom(Tail(s), args, current_arg, FALSE, quote_char)
              ELSE ParseFrom(Tail(s), args, Append(current_arg, char), FALSE, quote_char)
    ELSE IF char = quote_char
         THEN ParseFrom(Tail(s), args, current_arg, FALSE, "")
         ELSE ParseFrom(Tail(s), args, Append(current_arg, char), TRUE, quote_char)

parse_command_args(command_line) == ParseFrom(command_line, <<>>, <<>>, FALSE, "")

----------------------------------------------------------------------------
(* Words of the program, as text.                                          *)

W_quit == <<"q", "u", "i", "t">>
W_exit == <<"e", "x", "i", "t">>
W_q == <<"q">>
W_help == <<"h", "e", "l", "p">>
W_tools == <<"t", "o", "o", "l", "s">>
W_calc_ == <<"c", "a", "l", "c", " ">>
W_ls == <<"l", "s">>
W_read_ == <<"r", "e", "a", "d", " ">>
W_write_ == <<"w", "r", "i", "t", "e", " ">>
W_dot == <<".">>

----------------------------------------------------------------------------
(* The server's tools (mcp_server.py).                                     *)

\* The expressions the model evaluates, with eval's value
EvalTable ==
  { << <<"2", " ", "+", " ", "3", " ", "*", " ", "4">>, "14" >>,
    << <<"s", "q", "r", "t", "(", "1", "6", ")">>, "4.0" >>,
    << <<"p", "i", " ", "*", " ", "2">>, "6.283185307179586" >>,
    << <<"s", "i", "n", "(", "p", "i", "/", "2", ")">>, "1.0" >>,
    << <<"1", "+", "1">>, "2" >> }

\* The expressions on which eval raises, with the exception's text
EvalErrors ==
  { << <<"1", "/", "0">>, "division by zero" >> }

calculate(expression) ==
  IF \E p \in EvalTable : p[1] = expression
  THEN <<"Result: ", expression, " = ", (CHOOSE p \in EvalTable : p[1] = expression)[2]>>
  ELSE IF \E p \in EvalErrors : p[1] = expression
       THEN <<"Calculation error: ", (CHOOSE p \in EvalErrors : p[1] = expression)[2]>>
       ELSE <<"Calculation error: ", "invalid syntax">>

\* os.path.dirname
RECURSIVE Dirname(_)
Dirname(path) ==
  IF path = <<>> THEN <<>>
  ELSE IF path[Len(path)] = "/"
       THEN (IF Len(path) = 1 THEN path ELSE SubSeq(path, 1, Len(path) - 1))
       ELSE Dirname(SubSeq(path, 1, Len(path) - 1))

\* The directories of the server's working tree: "." and the directory of every file
\* (the paths of the model are at most one directory deep)
Dirs(files) == {W_dot} \cup {Dirname(p) : p \in {q \in DOMAIN files : Dirname(q) # <<>>}}

\* The directory a path lies in, "." for a bare name
ParentOf(path) == IF Dirname(path) = <<>> THEN W_dot ELSE Dirname(path)

list_files(directory, files) ==
  IF directory \notin Dirs(files) /\ directory \notin DOMAIN files
  THEN <<"Directory does not exist: ", directory>>
  ELSE IF directory \in DOMAIN files
       THEN <<"Error listing files: ", "Not a directory">>
       ELSE <<"Files in ", directory, ":\n",
              {[icon |-> "file", item |-> p] : p \in {q \in DOMAIN files : ParentOf(q) = directory}}
                \cup {[icon |-> "dir", item |-> d] :
                        d \in {e \in Dirs(files) \ {W_dot} : ParentOf(e) = directory}}>>

read_file(filepath, files) ==
  IF filepath \notin DOMAIN files /\ filepath \notin Dirs(files)
  THEN <<"File does not exist: ", filepath>>
  ELSE IF filepath \in Dirs(files)
       THEN <<"Error reading file: ", "Is a directory">>
       ELSE <<"Contents of ", filepath, ":\n\n", files[filepath]>>

\* write_file's text
write_file(filepath, content, files) ==
  IF filepath \in Dirs(files) \/ Dirname(filepath) \in DOMAIN files \/ filepath = <<>>
  THEN <<"Error writing file: ", "cannot open">>
  ELSE <<"Successfully wrote ", Len(content), " characters to ", filepath>>

\* write_file's effect on the files
write_file_effect(filepath, content, files) ==
  IF filepath \in Dirs(files) \/ Dirname(filepath) \in DOMAIN files \/ filepath = <<>>
  THEN files
  ELSE [p \in DOMAIN files \cup {filepath} |-> IF p = filepath THEN content ELSE files[p]]

\* The tools FastMCP registers, in registration order
ServerTools == <<"calculate", "list_files", "read_file", "write_file">>

\* The text a registered tool returns for a request
HandlerText(name, args, files) ==
  CASE name = "calculate" -> calculate(args.expression)
    [] name = "list_files" -> list_files(args.directory, files)
    [] name = "read_file" -> read_file(args.filepath, files)
    [] name = "write_file" -> write_file(args.filepath, args.content, files)

\* The files after a registered tool has run
HandlerEffect(name, args, files) ==
  IF name = "write_file" THEN write_file_effect(args.filepath, args.content, files) ELSE files

----------------------------------------------------------------------------
(* What the user and the environment can supply.                           *)

\* Command lines: program name, mode, and what follows
ArgvChoices ==
  { <<"mcp_client.py">>,
    <<"mcp_client.py", "demo">>,
    <<"mcp_client.py", "interactive">>,
    <<"mcp_client.py", "server">>,
    <<"mcp_client.py", "server", "python", "mcp_server.py">>,
    <<"mcp_client.py", "server", "other_server">>,
    <<"mcp_client.py", "bogus">> }

\* Lines typed at the mcp> prompt
Commands ==
  { <<"q", "u", "i", "t">>,
    <<"Q", "U", "I", "T">>,
    <<" ", "E", "x", "i", "t", " ">>,
    <<"q">>,
    <<"q", "u", "i", "t", "s">>,
    <<"h", "e", "l", "p">>,
    <<"T", "o", "o", "l", "s">>,
    <<"c", "a", "l", "c", " ", "1", "+", "1">>,
    <<"c", "a", "l", "c", " ", "1", "/", "0">>,
    <<"c", "a", "l", "c", " ">>,
    <<"l", "s">>,
    <<"l", "s", " ", "f">>,
    <<"r", "e", "a", "d", " ", "f">>,
    <<"w", "r", "i", "t", "e", " ", "f", " ", "h", "i">>,
    <<"w", "r", "i", "t", "e", " ", "d", "/", "g", " ", "\"", "a", " ", "b", "\"">>,
    <<"w", "r", "i", "t", "e", " ", "f">>,
    <<>> }

\* No files
NoFiles == [p \in {} |-> <<>>]

\* The server's working directory when the client starts
InitialFiles == { NoFiles, [p \in {<<"f">>} |-> <<"o", "l", "d">>] }

----------------------------------------------------------------------------
(* The client (mcp_client.py).                                             *)

\* main: server_command
DefaultServerCommand == <<"python", "mcp_server.py">>

\* run_demo: the scripted calls, in order
DemoCalls ==
  << [name |-> "calculate", args |-> [expression |-> <<"2", " ", "+", " ", "3", " ", "*", " ", "4">>]],
     [name |-> "calculate", args |-> [expression |-> <<"s", "q", "r", "t", "(", "1", "6", ")">>]],
     [name |-> "calculate", args |-> [expression |-> <<"p", "i", " ", "*", " ", "2">>]],
     [name |-> "calculate", args |-> [expression |-> <<"s", "i", "n", "(", "p", "i", "/", "2", ")">>]],
     [name |-> "list_files", args |-> [directory |-> W_dot]],
     [name |-> "write_file", args |-> [filepath |-> <<"t", "e", "s", "t", "_", "f", "i", "l", "e", ".", "t", "x", "t">>,
                                       content |-> <<"H", "e", "l", "l", "o">>]],
     [name |-> "read_file", args |-> [filepath |-> <<"t", "e", "s", "t", "_", "f", "i", "l", "e", ".", "t", "x", "t">>]] >>

\* session.call_tool at line 73: what the library does with the request
LibCallTool(name, args, interrupted) ==
  IF interrupted THEN [kind |-> "interrupt", msg |-> "KeyboardInterrupt"]
  ELSE IF serverUp /\ sess = "Ready"
       THEN [kind |-> "result",
             content |-> << [type |-> "text", text |-> HandlerText(name, args, fs)] >>]
       ELSE [kind |-> "raise", msg |-> "Connection closed"]

\* session.list_tools at line 59: what the library does with the request
LibListTools(interrupted) ==
  IF interrupted THEN [kind |-> "interrupt", msg |-> "KeyboardInterrupt"]
  ELSE IF serverUp /\ sess = "Ready"
       THEN [kind |-> "result", tools |-> ServerTools]
       ELSE [kind |-> "raise", msg |-> "Connection closed"]

\* call_tool, lines 76-81: the text of the first content item that has one
RECURSIVE ExtractText(_)
ExtractText(content) ==
  IF content = <<>> THEN <<"No content returned">>
  ELSE IF "text" \in DOMAIN Head(content) THEN Head(content).text
  ELSE ExtractText(Tail(content))

\* call_tool: what its caller gets for what the library did
call_tool(name, lib) ==
  IF lib.kind = "result"
  THEN [ret |-> "return", value |-> ExtractText(lib.content), logged |-> logged]
  ELSE IF lib.kind = "raise"
       THEN [ret |-> "return", value |-> <<"Error: ", lib.msg>>,
             logged |-> <<"Error calling tool ", name, ": ", lib.msg>>]
       ELSE [ret |-> "raise", value |-> lib.msg, logged |-> logged]

\* list_tools: the cache, the output and what its caller gets for what the library did
list_tools(lib) ==
  IF lib.kind = "result"
  THEN [ret |-> "return", tools |-> lib.tools,
        out |-> [kind |-> "tools", val |-> lib.tools], logged |-> logged]
  ELSE IF lib.kind = "raise"
       THEN [ret |-> "return", tools |-> tools, out |-> out,
             logged |-> <<"Failed to list tools: ", lib.msg>>]
       ELSE [ret |-> "raise", tools |-> tools, out |-> out, logged |-> logged]

\* The record kept of a tool operation issued on the session
OpRecord(op) == [op |-> op, handshook |-> handshook, ready |-> sess = "Ready",
                 served |-> serverUp /\ sess = "Ready"]

----------------------------------------------------------------------------
(* interactive_session: one command line.                                  *)

\* Line 132: the command ends the loop
IsQuit(cmd) == Lower(cmd) \in {W_quit, W_exit, W_q}

\* Lines 132-178: what a stripped command line asks for
Request(cmd) ==
  IF IsQuit(cmd) THEN [kind |-> "quit"]
  ELSE IF Lower(cmd) = W_help THEN [kind |-> "help"]
  ELSE IF Lower(cmd) = W_tools THEN [kind |-> "tools"]
  ELSE IF StartsWith(cmd, W_calc_)
       THEN LET expression == Strip(From(cmd, 5)) IN
            IF expression # <<>>
            THEN [kind |-> "call", name |-> "calculate", args |-> [expression |-> expression]]
            ELSE [kind |-> "usage", of |-> "calc"]
  ELSE IF StartsWith(cmd, W_ls)
       THEN LET parts == Split(cmd)
                directory == IF Len(parts) > 1 THEN parts[2] ELSE W_dot IN
            [kind |-> "call", name |-> "list_files", args |-> [directory |-> directory]]
  ELSE IF StartsWith(cmd, W_read_)
       THEN LET filepath == Strip(From(cmd, 5)) IN
            IF filepath # <<>>
            THEN [kind |-> "call", name |-> "read_file", args |-> [filepath |-> filepath]]
            ELSE [kind |-> "usage", of |-> "read"]
  ELSE IF StartsWith(cmd, W_write_)
       THEN LET args == parse_command_args(Strip(From(cmd, 6))) IN
            IF Len(args) >= 2
            THEN [kind |-> "call", name |-> "write_file",
                  args |-> [filepath |-> args[1], content |-> Join(Tail(args))]]
            ELSE [kind |-> "usage", of |-> "write"]
  ELSE IF cmd = <<>> THEN [kind |-> "empty"]
  ELSE [kind |-> "unknown"]

\* The loop with the except Exception clause missing: an EOFError leaves it
InteractiveOnException_Propagates(e) == IF e = "EOFError" THEN "exit_session" ELSE "interactive"

\* Lines 180-183: where the loop goes after an exception caught in an iteration
InteractiveOnException(e) == "interactive"

\* When a Ctrl-C can fall during an awaited request: not at all, before the server
\* has served it, or after
Interrupts == {"no", "before", "after"}

\* The files after a call_tool request that the library answered with lib
FilesAfter(name, args, lib, interrupt) ==
  IF lib.kind = "result" \/ (interrupt = "after" /\ serverUp /\ sess = "Ready")
  THEN HandlerEffect(name, args, fs)
  ELSE fs

----------------------------------------------------------------------------
(* run_with_server: where control goes.                                    *)

\* The body without the async with blocks: an exception goes straight to the handler
OnRaiseInBody_NoCleanup == "except"

\* Lines 36-37: an exception raised inside the two async with blocks leaves
\* through both of them
OnRaiseInBody == "exit_session"

\* run_with_server with a failed handshake swallowed: it goes on to list the tools
AfterInitialize_Unchecked(ok) == "list_tools"

\* Lines 39-44: after session.initialize() has returned (ok) or raised
AfterInitialize(ok) == IF ok THEN "list_tools" ELSE OnRaiseInBody

----------------------------------------------------------------------------
(* The program.                                                            *)

Init ==
  /\ sys_argv \in ArgvChoices
  /\ pc = "main"
  /\ server_command = <<>>
  /\ operation = ""
  /\ transport = "none"
  /\ opens = 0
  /\ closes = 0
  /\ sess = "Unconnected"
  /\ serverUp = FALSE
  /\ initCount = 0
  /\ handshook = FALSE
  /\ ops = {}
  /\ tools = <<>>
  /\ demo_i = 1
  /\ command = <<>>
  /\ event = "none"
  /\ lastCall = [lib |-> "none", ret |-> "none", value |-> <<>>]
  /\ lastList = [lib |-> "none", ret |-> "none", ready |-> FALSE, returned |-> <<>>]
  /\ out = [kind |-> "none", val |-> <<>>]
  /\ exc = "none"
  /\ logged = <<>>
  /\ fs \in InitialFiles

\* main, lines 230-259
Main ==
  /\ pc = "main"
  /\ IF Len(sys_argv) < 2
     THEN /\ out' = [kind |-> "usage", val |-> <<>>]
          /\ pc' = "done"
          /\ UNCHANGED <<server_command, operation>>
     ELSE LET mode == sys_argv[2] IN
          /\ server_command' = IF mode = "server" /\ Len(sys_argv) > 2
                               THEN SubSeq(sys_argv, 3, Len(sys_argv))
                               ELSE DefaultServerCommand
          /\ IF mode = "demo"
             THEN /\ operation' = "demo"
                  /\ pc' = "connect"
                  /\ out' = out
             ELSE IF mode = "interactive"
                  THEN /\ operation' = "interactive"
                       /\ pc' = "connect"
                       /\ out' = out
                  ELSE /\ operation' = operation
                       /\ pc' = "done"
                       /\ out' = [kind |-> "unknown_mode", val |-> mode]
  /\ UNCHANGED <<sys_argv, transport, opens, closes, sess, serverUp, initCount, handshook,
                 ops, tools, demo_i, command, event, lastCall, lastList, exc, logged, fs>>

\* run_with_server, lines 26-36: the server is started and the transport opened, or
\* stdio_client raises
Connect ==
  /\ pc = "connect"
  /\ \E ok \in BOOLEAN :
       IF ok
       THEN /\ transport' = "open"
            /\ opens' = opens + 1
            /\ serverUp' = TRUE
            /\ pc' = "session_enter"
            /\ exc' = exc
       ELSE /\ exc' = "OSError"
            /\ pc' = "except"
            /\ UNCHANGED <<transport, opens, serverUp>>
  /\ out' = [kind |-> "connecting", val |-> server_command]
  /\ UNCHANGED <<sys_argv, server_command, operation, closes, sess, initCount, handshook,
                 ops, tools, demo_i, command, event, lastCall, lastList, logged, fs>>

\* run_with_server, line 37: ClientSession is entered
SessionEnter ==
  /\ pc = "session_enter"
  /\ sess' = "Handshaking"
  /\ pc' = "initialize"
  /\ UNCHANGED <<sys_argv, server_command, operation, transport, opens, closes, serverUp,
                 initCount, handshook, ops, tools, demo_i, command, event, lastCall,
                 lastList, out, exc, logged, fs>>

\* run_with_server, lines 39-41: the handshake
Initialize ==
  /\ pc = "initialize"
  /\ initCount' = initCount + 1
  /\ \E ok \in (IF serverUp THEN BOOLEAN ELSE {FALSE}) :
       /\ pc' = AfterInitialize(ok)
       /\ IF ok
          THEN /\ sess' = "Ready"
               /\ handshook' = TRUE
               /\ exc' = exc
          ELSE /\ exc' = "McpError"
               /\ UNCHANGED <<sess, handshook>>
  /\ UNCHANGED <<sys_argv, server_command, operation, transport, opens, closes, serverUp,
                 ops, tools, demo_i, command, event, lastCall, lastList, out, logged, fs>>

\* run_with_server, line 44: list_tools(session)
ListToolsStep ==
  /\ pc = "list_tools"
  /\ \E interrupt \in {"no", "before"} :
       \E lib \in {LibListTools(interrupt # "no")} : \E r \in {list_tools(lib)} :
       /\ tools' = r.tools
       /\ out' = r.out
       /\ logged' = r.logged
       /\ lastList' = [lib |-> lib.kind, ret |-> r.ret, ready |-> sess = "Ready",
                       returned |-> IF lib.kind = "result" THEN lib.tools ELSE <<>>]
       /\ IF r.ret = "raise"
          THEN /\ exc' = "KeyboardInterrupt"
               /\ pc' = OnRaiseInBody
          ELSE /\ exc' = exc
               /\ pc' = "operation"
  /\ ops' = ops \cup {OpRecord("list_tools")}
  /\ UNCHANGED <<sys_argv, server_command, operation, transport, opens, closes, sess,
                 serverUp, initCount, handshook, demo_i, command, event, lastCall, fs>>

\* run_with_server, lines 47-50: the requested operation starts
StartOperation ==
  /\ pc = "operation"
  /\ IF operation = "demo"
     THEN /\ pc' = "demo"
          /\ out' = [kind |-> "banner", val |-> "demo"]
     ELSE IF operation = "interactive"
          THEN /\ pc' = "interactive"
               /\ out' = [kind |-> "banner", val |-> "interactive"]
          ELSE /\ pc' = "exit_session"
               /\ out' = out
  /\ demo_i' = 1
  /\ UNCHANGED <<sys_argv, server_command, operation, transport, opens, closes, sess,
                 serverUp, initCount, handshook, ops, tools, command, event, lastCall,
                 lastList, exc, logged, fs>>

\* run_demo, lines 198-228: the next scripted call_tool and its print
DemoStep ==
  /\ pc = "demo"
  /\ \E interrupt \in Interrupts :
       \E c \in {DemoCalls[demo_i]} :
       \E lib \in {LibCallTool(c.name, c.args, interrupt # "no")} :
       \E r \in {call_tool(c.name, lib)} :
       /\ fs' = FilesAfter(c.name, c.args, lib, interrupt)
       /\ lastCall' = [lib |-> lib.kind, ret |-> r.ret, value |-> r.value]
       /\ logged' = r.logged
       /\ IF r.ret = "raise"
          THEN /\ exc' = "KeyboardInterrupt"
               /\ pc' = OnRaiseInBody
               /\ UNCHANGED <<out, demo_i>>
          ELSE /\ exc' = exc
               /\ IF demo_i = Len(DemoCalls)
                  THEN /\ pc' = "exit_session"
                       /\ out' = [kind |-> "demo_completed", val |-> r.value]
                       /\ demo_i' = demo_i
                  ELSE /\ pc' = "demo"
                       /\ out' = [kind |-> "result", val |-> r.value]
                       /\ demo_i' = demo_i + 1
  /\ ops' = ops \cup {OpRecord("call_tool")}
  /\ UNCHANGED <<sys_argv, server_command, operation, transport, opens, closes, sess,
                 serverUp, initCount, handshook, tools, command, event, lastList>>

\* interactive_session, lines 128-183: one iteration of the loop, input() raising
InteractiveInputFails ==
  /\ pc = "interactive"
  /\ \E e \in {"EOFError", "KeyboardInterrupt"} :
       /\ event' = e
       /\ pc' = InteractiveOnException(e)
       /\ exc' = IF pc' = "interactive" THEN exc ELSE e
       /\ out' = IF e = "KeyboardInterrupt"
                 THEN [kind |-> "use_quit", val |-> <<>>]
                 ELSE [kind |-> "error", val |-> <<"Error: ", "EOF when reading a line">>]
  /\ UNCHANGED <<sys_argv, server_command, operation, transport, opens, closes, sess,
                 serverUp, initCount, handshook, ops, tools, demo_i, command, lastCall,
                 lastList, logged, fs>>

\* interactive_session, lines 128-183: one iteration of the loop, input() returning
InteractiveStep ==
  /\ pc = "interactive"
  /\ \E raw \in Commands, interrupt \in Interrupts :
       \E cmd \in {Strip(raw)} : \E req \in {Request(cmd)} :
       /\ command' = cmd
       /\ IF req.kind = "quit"
          THEN /\ pc' = "exit_session"
               /\ event' = "break"
               /\ UNCHANGED <<ops, tools, lastCall, lastList, out, exc, logged, fs>>
          ELSE IF req.kind = "tools"
          THEN \E lib \in {LibListTools(interrupt = "before")} : \E r \in {list_tools(lib)} :
               /\ tools' = r.tools
               /\ logged' = r.logged
               /\ lastList' = [lib |-> lib.kind, ret |-> r.ret, ready |-> sess = "Ready",
                               returned |-> IF lib.kind = "result" THEN lib.tools ELSE <<>>]
               /\ ops' = ops \cup {OpRecord("list_tools")}
               /\ event' = IF r.ret = "raise" THEN "KeyboardInterrupt" ELSE "ok"
               /\ pc' = IF r.ret = "raise" THEN InteractiveOnException("KeyboardInterrupt")
                                           ELSE "interactive"
               /\ exc' = IF pc' = "interactive" THEN exc ELSE "KeyboardInterrupt"
               /\ out' = IF r.ret = "raise" THEN [kind |-> "use_quit", val |-> <<>>] ELSE r.out
               /\ UNCHANGED <<lastCall, fs>>
          ELSE IF req.kind = "call"
          THEN \E lib \in {LibCallTool(req.name, req.args, interrupt # "no")} :
               \E r \in {call_tool(req.name, lib)} :
               /\ fs' = FilesAfter(req.name, req.args, lib, interrupt)
               /\ lastCall' = [lib |-> lib.kind, ret |-> r.ret, value |-> r.value]
               /\ logged' = r.logged
               /\ ops' = ops \cup {OpRecord("call_tool")}
               /\ event' = IF r.ret = "raise" THEN "KeyboardInterrupt" ELSE "ok"
               /\ pc' = IF r.ret = "raise" THEN InteractiveOnException("KeyboardInterrupt")
                                           ELSE "interactive"
               /\ exc' = IF pc' = "interactive" THEN exc ELSE "KeyboardInterrupt"
               /\ out' = IF r.ret = "raise" THEN [kind |-> "use_quit", val |-> <<>>]
                                            ELSE [kind |-> "result", val |-> r.value]
               /\ UNCHANGED <<tools, lastList>>
          ELSE /\ pc' = "interactive"
               /\ event' = "ok"
               /\ out' = IF req.kind = "empty" THEN out ELSE [kind |-> req.kind, val |-> cmd]
               /\ UNCHANGED <<ops, tools, lastCall, lastList, exc, logged, fs>>
  /\ UNCHANGED <<sys_argv, server_command, operation, transport, opens, closes, sess,
                 serverUp, initCount, handshook, demo_i>>

\* run_with_server, line 37: ClientSession is left
ExitSession ==
  /\ pc = "exit_session"
  /\ sess' = "Closed"
  /\ pc' = "exit_transport"
  /\ UNCHANGED <<sys_argv, server_command, operation, transport, opens, closes, serverUp,
                 initCount, handshook, ops, tools, demo_i, command, event, lastCall,
                 lastList, out, exc, logged, fs>>

\* run_with_server, line 36: stdio_client is left, which closes the transport and
\* ends the server process
ExitTransport ==
  /\ pc = "exit_transport"
  /\ transport' = "closed"
  /\ closes' = closes + 1
  /\ serverUp' = FALSE
  /\ pc' = IF exc = "none" THEN "done" ELSE "except"
  /\ UNCHANGED <<sys_argv, server_command, operation, opens, sess, initCount, handshook,
                 ops, tools, demo_i, command, event, lastCall, lastList, out, exc, logged,
                 fs>>

\* run_with_server, lines 52-54: an Exception is logged and raised again; a
\* KeyboardInterrupt is not an Exception and passes
Except ==
  /\ pc = "except"
  /\ logged' = IF exc # "KeyboardInterrupt" THEN <<"Client error: ", exc>> ELSE logged
  /\ pc' = "done"
  /\ UNCHANGED <<sys_argv, server_command, operation, transport, opens, closes, sess,
                 serverUp, initCount, handshook, ops, tools, demo_i, command, event,
                 lastCall, lastList, out, exc, fs>>

\* The server process ends while the client is connected (mcp.run() returns or the
\* process dies): the stream ends and the session is closed
ServerExit ==
  /\ serverUp
  /\ transport = "open"
  /\ serverUp' = FALSE
  /\ sess' = IF sess \in {"Handshaking", "Ready"} THEN "Closed" ELSE sess
  /\ UNCHANGED <<sys_argv, pc, server_command, operation, transport, opens, closes,
                 initCount, handshook, ops, tools, demo_i, command, event, lastCall,
                 lastList, out, exc, logged, fs>>

Next ==
  \/ Main
  \/ Connect
  \/ SessionEnter
  \/ Initialize
  \/ ListToolsStep
  \/ StartOperation
  \/ DemoStep
  \/ InteractiveInputFails
  \/ InteractiveStep
  \/ ExitSession
  \/ ExitTransport
  \/ Except
  \/ ServerExit

Spec == Init /\ [][Next]_vars

----------------------------------------------------------------------------
(* Properties.                                                             *)

\* C1: in one session initialize is called at most once, and every list_tools or
\* call_tool request is issued only after initialize has returned, in the demo and
\* in the interactive operation.
C1_HandshakeBeforeToolOps ==
  /\ initCount <= 1
  /\ handshook => initCount = 1
  /\ \A r \in ops : r.handshook
  /\ pc \in {"operation", "demo", "interactive"} => handshook

\* C1: a demo has run to its end with a call served by the server
C1_Witness ==
  /\ pc = "done"
  /\ operation = "demo"
  /\ initCount = 1
  /\ \E r \in ops : r.op = "call_tool" /\ r.served
  /\ \E r \in ops : r.op = "list_tools" /\ r.served

\* C5: call_tool keeps the two kinds of failure apart: a result of the exchange is
\* returned, and a failure of the transport or the protocol (the library raising)
\* is raised to the caller, never returned as a value.
C5_FailureKindsApart ==
  /\ lastCall.lib = "result" => lastCall.ret = "return"
  /\ lastCall.lib = "raise" => lastCall.ret = "raise"

\* C7: the transport is opened at most once and closed at most once, never before
\* it was opened, and once run_with_server has ended (handshake failure, normal
\* completion or a propagated error) an opened transport has been closed exactly once.
C7_TransportClosedOnce ==
  /\ opens <= 1
  /\ closes <= opens
  /\ (pc = "done" /\ opens = 1) => (closes = 1 /\ transport = "closed")
  /\ transport = "open" <=> (opens = 1 /\ closes = 0)

\* C7: run_with_server has ended by a propagated error after the handshake
C7_Witness ==
  /\ pc = "done"
  /\ handshook
  /\ exc = "KeyboardInterrupt"
  /\ closes = 1

\* C8: after every list_tools the cached tools are exactly the tools the server
\* returned, and a list_tools issued on a session that is not Ready fails (raises
\* to its caller).
C8_ListToolsConsistent ==
  /\ lastList.lib = "result" => tools = lastList.returned
  /\ (lastList.lib # "none" /\ ~lastList.ready) => lastList.ret = "raise"

\* C9: mode server with a command given starts a session with the server that
\* command launches, and does not end with "Unknown mode".
C9_ServerModeConnects ==
  (pc = "done" /\ Len(sys_argv) > 2 /\ sys_argv[2] = "server") =>
    /\ operation # ""
    /\ server_command = SubSeq(sys_argv, 3, Len(sys_argv))
    /\ out.kind # "unknown_mode"

\* The upper-case form of the letters of quit, exit and q
UpperOf ==
  [c \in {"q", "u", "i", "t", "e", "x"} |->
     CASE c = "q" -> "Q" [] c = "u" -> "U" [] c = "i" -> "I" [] c = "t" -> "T"
       [] c = "e" -> "E" [] c = "x" -> "X"]

\* A word in every mix of upper and lower case
CaseVariants(w) ==
  {s \in [1..Len(w) -> {"q", "u", "i", "t", "e", "x", "Q", "U", "I", "T", "E", "X"}] :
     \A i \in 1..Len(w) : s[i] \in {w[i], UpperOf[w[i]]}}

\* quit, exit and q, in any case
QuitWords ==
  CaseVariants(<<"q", "u", "i", "t">>) \cup CaseVariants(<<"e", "x", "i", "t">>)
    \cup CaseVariants(<<"q">>)

\* C10: every step taken inside the interactive loop either stays in the loop, with
\* the transport open, nothing propagating and the command last read no quit word,
\* or leaves it normally with the command just read being quit, exit or q in any
\* case: failures inside an iteration never end the loop, and a quit word always does.
C10_LoopEndsOnlyOnQuit ==
  [][pc = "interactive" =>
       \/ /\ pc' = "interactive"
          /\ transport' = "open"
          /\ closes' = closes
          /\ exc' = "none"
          /\ command' \notin QuitWords
       \/ /\ pc' = "exit_session"
          /\ event' = "break"
          /\ exc' = "none"
          /\ command' \in QuitWords]_vars

\* C10: the loop is still running after a failed tool call and an end of input
C10_Witness ==
  /\ pc = "interactive"
  /\ event = "EOFError"
  /\ lastCall.lib = "raise"
  /\ transport = "open"

====
